---------------------------- MODULE Spec2Model ----------------------------
(***************************************************************************)
(* A model of the argon2id package: the Argon2Id configuration built by    *)
(* New from functional options, Generate (salt, KDF, base64, Sprintf of    *)
(* the template) and Compare (Split, Sscanf, strict base64 decode, KDF,    *)
(* constant-time comparison).                                              *)
(*                                                                         *)
(* Go strings and byte slices are sequences: a string is a sequence of     *)
(* one-character strings, a []byte a sequence of numbers in 0..255.        *)
(* The KDF (argon2.IDKey) is an external function: it is modelled as an    *)
(* oracle, a table that fixes the key of a query the first time the query  *)
(* is made and answers the same key ever after.                            *)
(***************************************************************************)
EXTENDS Integers, Sequences, FiniteSets, TLC

VARIABLES
    numCPU,   \* runtime.NumCPU() of the machine
    a,        \* the Argon2Id instance in use
    options,  \* the options New built it from
    oracle,   \* the queries argon2.IDKey has answered, each with its key
    gens,     \* the calls of Generate made, in order, each with its result
    cmps      \* the calls of Compare made, each with its result

vars == <<numCPU, a, options, oracle, gens, cmps>>

(***************************************************************************)
(* Bounds of the model.                                                    *)
(***************************************************************************)
\* longest option list passed to New in SpecNew
MaxOpts == 2
\* calls of Generate and of Compare in a run
MaxCalls == 2

(***************************************************************************)
(* Constants of the package.                                               *)
(***************************************************************************)
\* a variant that writes the time cost before the memory cost
templateCostsSwapped ==
    <<"$", "a", "r", "g", "o", "n", "2", "i", "d", "$", "v", "=", "%", "d",
      "$", "t", "=", "%", "d", ",", "m", "=", "%", "d", ",", "p", "=", "%", "d",
      "$", "%", "s", "$", "%", "s">>

template == <<"$", "a", "r", "g", "o", "n", "2", "i", "d", "$", "v", "=", "%", "d",
              "$", "m", "=", "%", "d", ",", "t", "=", "%", "d", ",", "p", "=", "%", "d",
              "$", "%", "s", "$", "%", "s">>
versionTemplate == <<"v", "=", "%", "d">>
paramsTemplate == <<"m", "=", "%", "d", ",", "t", "=", "%", "d", ",", "p", "=", "%", "d">>
splitChar == "$"

algorithmIdx == 1
versionIdx == 2
paramsIdx == 3
saltIdx == 4
keyIdx == 5

numParts == 6

matching == 1

algorithm == <<"a", "r", "g", "o", "n", "2", "i", "d">>
defaultTimeCost == 2
defaultMemoryCost == 65536
defaultSaltLength == 16
defaultKeyLength == 32

\* argon2.Version, the %d written after "v="
Version == 19

\* the widths of the Go integer types the package uses
Uint8Mod == 256

\* init(): defaultParallelismCost = uint8(runtime.NumCPU())
defaultParallelismCost == numCPU % Uint8Mod

\* the error values; fmt.Errorf("...: %w", err) keeps err reachable by errors.Is
ErrMalformedHash == "malformed hash"
ErrBytesNotRead == "bytes not read"
ErrPasswordsDoNotMatch == "passwords do not match"
\* the errors of the packages called: crypto/rand, fmt.Sscanf, encoding/base64
ErrRandRead == "rand: read failed"
ErrScan == "fmt: scan error"
ErrCorruptInput == "base64: illegal data"
\* a run-time panic raised inside the call
Panic == "panic"
Nil == "nil"

\* fmt.Errorf(msg + ": %w", err)
Errorf(msg, err) == [msg |-> msg, wraps |-> err]
NilError == [msg |-> "", wraps |-> Nil]
\* errors.Is(err, target)
Is(err, target) == err.wraps = target

(***************************************************************************)
(* Strings.                                                                *)
(***************************************************************************)
DecimalDigits == <<"0", "1", "2", "3", "4", "5", "6", "7", "8", "9">>

IsDigit(c) == \E i \in 1..10 : DecimalDigits[i] = c

DigitVal(c) == (CHOOSE i \in 1..10 : DecimalDigits[i] = c) - 1

\* strconv formatting of a non-negative integer, as %d prints it
RECURSIVE FormatInt(_)
FormatInt(n) ==
    IF n < 10 THEN <<DecimalDigits[n + 1]>>
    ELSE FormatInt(n \div 10) \o <<DecimalDigits[(n % 10) + 1]>>

\* fmt.Sprintf(format, args...) for the verbs %d and %s
RECURSIVE Sprintf(_, _)
Sprintf(format, args) ==
    IF format = <<>> THEN <<>>
    ELSE IF Head(format) = "%" /\ Len(format) >= 2
         THEN (IF format[2] = "d" THEN FormatInt(Head(args)) ELSE Head(args))
              \o Sprintf(SubSeq(format, 3, Len(format)), Tail(args))
         ELSE <<Head(format)>> \o Sprintf(Tail(format), args)

\* strings.Split(s, sep) for a one-character separator
RECURSIVE Split(_, _)
Split(s, sep) ==
    IF \A i \in 1..Len(s) : s[i] # sep THEN <<s>>
    ELSE LET i == CHOOSE k \in 1..Len(s) :
                      s[k] = sep /\ \A j \in 1..(k - 1) : s[j] # sep
         IN  <<SubSeq(s, 1, i - 1)>> \o Split(SubSeq(s, i + 1, Len(s)), sep)

(***************************************************************************)
(* fmt.Sscanf for the verb %d, as doScanf runs it: literal characters of   *)
(* the format must match the input, %d skips blanks, reads an optional     *)
(* sign (signed operands only) and a run of the characters 0-9 and _, and  *)
(* converts it with strconv; input left over after the format is ignored.  *)
(***************************************************************************)
MaxUint32Digits == <<"4", "2", "9", "4", "9", "6", "7", "2", "9", "5">>
MaxUint8Digits == <<"2", "5", "5">>
MaxInt64Digits == <<"9", "2", "2", "3", "3", "7", "2", "0", "3", "6",
                    "8", "5", "4", "7", "7", "5", "8", "0", "7">>
MinInt64Digits == <<"9", "2", "2", "3", "3", "7", "2", "0", "3", "6",
                    "8", "5", "4", "7", "7", "5", "8", "0", "8">>

\* the operand types of the two Sscanf calls
IntOperand == [signed |-> TRUE, max |-> MaxInt64Digits]
Uint32Operand == [signed |-> FALSE, max |-> MaxUint32Digits]
Uint8Operand == [signed |-> FALSE, max |-> MaxUint8Digits]

\* ss.SkipSpace with nlIsSpace false: blanks are skipped, a newline is an error
RECURSIVE SkipSpace(_)
SkipSpace(input) ==
    IF input = <<>> THEN [err |-> FALSE, rest |-> input]
    ELSE IF Head(input) = "\r" /\ Len(input) >= 2 /\ input[2] = "\n"
         THEN SkipSpace(Tail(input))
    ELSE IF Head(input) = "\n" THEN [err |-> TRUE, rest |-> input]
    ELSE IF Head(input) \in {" ", "\t", "\r"} THEN SkipSpace(Tail(input))
    ELSE [err |-> FALSE, rest |-> input]

\* the length of the longest prefix of input made of digits and underscores
RECURSIVE NumberLen(_)
NumberLen(input) ==
    IF input # <<>> /\ (IsDigit(Head(input)) \/ Head(input) = "_")
    THEN 1 + NumberLen(Tail(input))
    ELSE 0

RECURSIVE StripZeros(_)
StripZeros(d) == IF Len(d) > 1 /\ Head(d) = "0" THEN StripZeros(Tail(d)) ELSE d

\* d <= m for two digit strings without leading zeros
RECURSIVE DigitsLeq(_, _)
DigitsLeq(d, m) ==
    IF Len(d) # Len(m) THEN Len(d) < Len(m)
    ELSE IF d = <<>> THEN TRUE
    ELSE IF Head(d) # Head(m) THEN DigitVal(Head(d)) < DigitVal(Head(m))
    ELSE DigitsLeq(Tail(d), Tail(m))

RECURSIVE Atoi(_)
Atoi(d) == IF d = <<>> THEN 0 ELSE Atoi(SubSeq(d, 1, Len(d) - 1)) * 10 + DigitVal(d[Len(d)])

\* ss.scanInt / ss.scanUint: one %d operand read from input
ScanOne(input, operand) ==
    LET neg    == operand.signed /\ input # <<>> /\ Head(input) = "-"
        signed == operand.signed /\ input # <<>> /\ Head(input) \in {"+", "-"}
        body   == IF signed THEN Tail(input) ELSE input
        n      == NumberLen(body)
        tok    == SubSeq(body, 1, n)
        d      == StripZeros(tok)
        max    == IF neg THEN MinInt64Digits ELSE operand.max
    IN  IF input = <<>> \/ n = 0                      \* unexpected EOF, expected integer
        THEN [err |-> TRUE, val |-> 0, rest |-> input]
        ELSE IF (\E i \in 1..n : tok[i] = "_") \/ ~DigitsLeq(d, max)   \* syntax, range
        THEN [err |-> TRUE, val |-> 0, rest |-> input]
        ELSE [err |-> FALSE,
              val |-> IF neg THEN 0 - Atoi(d) ELSE Atoi(d),
              rest |-> SubSeq(body, n + 1, Len(body))]

RECURSIVE doScanf(_, _, _, _)
doScanf(input, format, operands, vals) ==
    IF format = <<>> THEN [err |-> operands # <<>>, vals |-> vals]
    ELSE IF Head(format) = "%" /\ Len(format) >= 2
    THEN LET sp == SkipSpace(input)
             r  == ScanOne(sp.rest, Head(operands))
         IN  IF operands = <<>> \/ sp.err \/ r.err
             THEN [err |-> TRUE, vals |-> vals]
             ELSE doScanf(r.rest, SubSeq(format, 3, Len(format)), Tail(operands),
                          Append(vals, r.val))
    ELSE IF input = <<>> \/ Head(input) # Head(format)
         THEN [err |-> TRUE, vals |-> vals]
         ELSE doScanf(Tail(input), Tail(format), operands, vals)

Sscanf(str, format, operands) == doScanf(str, format, operands, <<>>)

(***************************************************************************)
(* encoding/base64: RawStdEncoding (standard alphabet, no padding).        *)
(***************************************************************************)
encodeStd ==
    <<"A", "B", "C", "D", "E", "F", "G", "H", "I", "J", "K", "L", "M", "N", "O", "P",
      "Q", "R", "S", "T", "U", "V", "W", "X", "Y", "Z", "a", "b", "c", "d", "e", "f",
      "g", "h", "i", "j", "k", "l", "m", "n", "o", "p", "q", "r", "s", "t", "u", "v",
      "w", "x", "y", "z", "0", "1", "2", "3", "4", "5", "6", "7", "8", "9", "+", "/">>

EncChar(v) == encodeStd[v + 1]

InAlphabet(c) == \E i \in 1..64 : encodeStd[i] = c

DecChar(c) == (CHOOSE i \in 1..64 : encodeStd[i] = c) - 1

\* a variant that pads the last quantum with "=", as StdEncoding does
RECURSIVE PaddedEncodeToString(_)
PaddedEncodeToString(src) ==
    IF src = <<>> THEN <<>>
    ELSE IF Len(src) = 1
    THEN <<EncChar(src[1] \div 4), EncChar((src[1] % 4) * 16), "=", "=">>
    ELSE IF Len(src) = 2
    THEN <<EncChar(src[1] \div 4), EncChar((src[1] % 4) * 16 + src[2] \div 16),
           EncChar((src[2] % 16) * 4), "=">>
    ELSE <<EncChar(src[1] \div 4), EncChar((src[1] % 4) * 16 + src[2] \div 16),
           EncChar((src[2] % 16) * 4 + src[3] \div 64), EncChar(src[3] % 64)>>
         \o PaddedEncodeToString(SubSeq(src, 4, Len(src)))

\* base64.RawStdEncoding.EncodeToString
RECURSIVE EncodeToString(_)
EncodeToString(src) ==
    IF src = <<>> THEN <<>>
    ELSE IF Len(src) = 1
    THEN <<EncChar(src[1] \div 4), EncChar((src[1] % 4) * 16)>>
    ELSE IF Len(src) = 2
    THEN <<EncChar(src[1] \div 4), EncChar((src[1] % 4) * 16 + src[2] \div 16),
           EncChar((src[2] % 16) * 4)>>
    ELSE <<EncChar(src[1] \div 4), EncChar((src[1] % 4) * 16 + src[2] \div 16),
           EncChar((src[2] % 16) * 4 + src[3] \div 64), EncChar(src[3] % 64)>>
         \o EncodeToString(SubSeq(src, 4, Len(src)))

\* the bytes of a run of alphabet characters whose length is not 1 mod 4
RECURSIVE DecodeQuanta(_)
DecodeQuanta(s) ==
    IF Len(s) < 2 THEN <<>>
    ELSE LET v1 == DecChar(s[1])
             v2 == DecChar(s[2])
         IN  IF Len(s) = 2 THEN <<v1 * 4 + v2 \div 16>>
             ELSE LET v3 == DecChar(s[3])
                  IN  IF Len(s) = 3
                      THEN <<v1 * 4 + v2 \div 16, (v2 % 16) * 16 + v3 \div 4>>
                      ELSE <<v1 * 4 + v2 \div 16, (v2 % 16) * 16 + v3 \div 4,
                             (v3 % 4) * 64 + DecChar(s[4])>>
                           \o DecodeQuanta(SubSeq(s, 5, Len(s)))

\* the bits of the last character that belong to no byte
TrailingBits(s) ==
    IF Len(s) % 4 = 2 THEN DecChar(s[Len(s)]) % 16
    ELSE IF Len(s) % 4 = 3 THEN DecChar(s[Len(s)]) % 4
    ELSE 0

\* base64.RawStdEncoding.DecodeString: \r and \n are skipped; any other
\* character outside the alphabet ("=" included) and a last quantum of one
\* character are a CorruptInputError
RawDecodeString(s) ==
    LET t == SelectSeq(s, LAMBDA c : c \notin {"\r", "\n"})
    IN  IF (\E i \in 1..Len(t) : ~InAlphabet(t[i])) \/ Len(t) % 4 = 1
        THEN [err |-> TRUE, bytes |-> <<>>]
        ELSE [err |-> FALSE, bytes |-> DecodeQuanta(t)]

\* base64.RawStdEncoding.Strict().DecodeString: non-zero trailing bits are a
\* CorruptInputError too
DecodeString(s) ==
    LET t == SelectSeq(s, LAMBDA c : c \notin {"\r", "\n"})
        r == RawDecodeString(s)
    IN  IF ~r.err /\ TrailingBits(t) # 0
        THEN [err |-> TRUE, bytes |-> <<>>]
        ELSE r

\* a variant that compares the lengths alone
ConstantTimeCompareLengths(x, y) == IF Len(x) = Len(y) THEN 1 ELSE 0

\* subtle.ConstantTimeCompare: 1 when x and y have equal contents, else 0
ConstantTimeCompare(x, y) ==
    IF Len(x) # Len(y) THEN 0
    ELSE IF \A i \in 1..Len(x) : x[i] = y[i] THEN 1 ELSE 0

(***************************************************************************)
(* Argon2Id and its options.                                               *)
(***************************************************************************)
\* an Argon2IdOption is a closure over its argument; Apply runs it on a
WithTimeCost(timeCost) == [fn |-> "WithTimeCost", arg |-> timeCost]
WithMemoryCost(memoryCost) == [fn |-> "WithMemoryCost", arg |-> memoryCost]
WithParallelismCost(parallelismCost) == [fn |-> "WithParallelismCost", arg |-> parallelismCost]
WithSaltLength(saltLength) == [fn |-> "WithSaltLength", arg |-> saltLength]
WithKeyLength(keyLength) == [fn |-> "WithKeyLength", arg |-> keyLength]

Apply(option, cfg) ==
    CASE option.fn = "WithTimeCost" -> [cfg EXCEPT !.timeCost = option.arg]
      [] option.fn = "WithMemoryCost" -> [cfg EXCEPT !.memoryCost = option.arg]
      [] option.fn = "WithParallelismCost" -> [cfg EXCEPT !.parallelismCost = option.arg]
      [] option.fn = "WithSaltLength" -> [cfg EXCEPT !.saltLength = option.arg]
      [] option.fn = "WithKeyLength" -> [cfg EXCEPT !.keyLength = option.arg]

\* for _, option := range options { option(a) }
RECURSIVE ApplyAll(_, _)
ApplyAll(opts, cfg) ==
    IF opts = <<>> THEN cfg ELSE ApplyAll(Tail(opts), Apply(Head(opts), cfg))

\* the struct literal of New
Defaults ==
    [timeCost        |-> defaultTimeCost,
     memoryCost      |-> defaultMemoryCost,
     parallelismCost |-> defaultParallelismCost,
     saltLength      |-> defaultSaltLength,
     keyLength       |-> defaultKeyLength]

NewArgon2Id(opts) == IF Len(opts) = 0 THEN Defaults ELSE ApplyAll(opts, Defaults)

(***************************************************************************)
(* The inputs of the model.                                                *)
(***************************************************************************)
\* runtime.NumCPU() of the machine
NumCPUs == {4, 256}

\* the arguments the options are given
Options ==
    {WithTimeCost(v) : v \in {0, 4}} \cup
    {WithMemoryCost(v) : v \in {0, 32768}} \cup
    {WithParallelismCost(v) : v \in {0, 2, 255}} \cup
    {WithSaltLength(v) : v \in {0, 48}} \cup
    {WithKeyLength(v) : v \in {0, 64}}

RECURSIVE OptionLists(_)
OptionLists(n) ==
    IF n = 0 THEN {<<>>}
    ELSE OptionLists(n - 1) \cup
         {Append(l, o) : l \in {m \in OptionLists(n - 1) : Len(m) = n - 1}, o \in Options}

\* the option lists of the runs that generate and compare: none, and one
\* that sets the smallest lengths
SmallOptions == <<WithParallelismCost(1), WithSaltLength(0), WithKeyLength(1)>>
UsedOptionLists == {<<>>, SmallOptions}

\* passwords, as bytes
Passwords == {<<112>>, <<112, 113>>}

\* the outcomes drawn from the random source and from the KDF: Fill(n, s) is
\* the s-th byte string of length n
Seeds == {1, 2}
Fill(n, s) == [i \in 1..n |-> (s * (89 + 37 * i)) % Uint8Mod]

(***************************************************************************)
(* crypto/rand.Read and argon2.IDKey.                                      *)
(***************************************************************************)
\* rand.Read(salt): it fills salt and returns its length, or fails
ReadOutcomes(salt) ==
    {[n |-> Len(salt), err |-> Nil, bytes |-> Fill(Len(salt), s)] : s \in Seeds}
    \cup {[n |-> 0, err |-> ErrRandRead, bytes |-> salt]}

\* make([]byte, n, n)
Make(n) == [i \in 1..n |-> 0]

\* the arguments of one call of argon2.IDKey
Query(password, salt, time, memory, threads, keyLen) ==
    [password |-> password, salt |-> salt, time |-> time, memory |-> memory,
     threads |-> threads, keyLen |-> keyLen]

\* argon2.IDKey panics on no rounds, no lanes, and an empty output
IDKeyPanics(q) == q.time < 1 \/ q.threads < 1 \/ q.keyLen < 1

\* the keys argon2.IDKey may return for q: the key it returned before for q,
\* or else any byte string of length q.keyLen
IDKey(q) ==
    IF \E e \in oracle : e.q = q
    THEN {e.key : e \in {f \in oracle : f.q = q}}
    ELSE {Fill(q.keyLen, s) : s \in Seeds}

(***************************************************************************)
(* Generate.                                                               *)
(***************************************************************************)
\* the call of argon2.IDKey in Generate
GenerateQuery(cfg, password, salt) ==
    Query(password, salt, cfg.timeCost, cfg.memoryCost, cfg.parallelismCost, cfg.keyLength)

\* a variant that writes the key where the salt belongs
GenerateFormatKeyTwice(cfg, salt, key) ==
    Sprintf(template, <<Version, cfg.memoryCost, cfg.timeCost, cfg.parallelismCost,
                        EncodeToString(key), EncodeToString(key)>>)

\* the return statement of Generate
GenerateFormat(cfg, salt, key) ==
    Sprintf(template, <<Version, cfg.memoryCost, cfg.timeCost, cfg.parallelismCost,
                        EncodeToString(salt), EncodeToString(key)>>)

GenCall(cfg, password, salt, key, hash, err) ==
    [a |-> cfg, password |-> password, salt |-> salt, key |-> key, hash |-> hash, err |-> err]

Generate(password) ==
    \E rd \in ReadOutcomes(Make(a.saltLength)) :
        LET q == GenerateQuery(a, password, rd.bytes)
        IN  IF rd.err # Nil
            THEN /\ gens' = Append(gens, GenCall(a, password, <<>>, <<>>, <<>>,
                                        Errorf("argon2id: generate salt", rd.err)))
                 /\ UNCHANGED <<numCPU, a, options, oracle, cmps>>
            ELSE IF rd.n # a.saltLength
            THEN /\ gens' = Append(gens, GenCall(a, password, <<>>, <<>>, <<>>,
                                        Errorf("argon2id: generate salt", ErrBytesNotRead)))
                 /\ UNCHANGED <<numCPU, a, options, oracle, cmps>>
            ELSE IF IDKeyPanics(q)
            THEN /\ gens' = Append(gens, GenCall(a, password, rd.bytes, <<>>, <<>>,
                                        Errorf("argon2", Panic)))
                 /\ UNCHANGED <<numCPU, a, options, oracle, cmps>>
            ELSE \E key \in IDKey(q) :
                 /\ oracle' = oracle \cup {[q |-> q, key |-> key]}
                 /\ gens' = Append(gens, GenCall(a, password, rd.bytes, key,
                                        GenerateFormat(a, rd.bytes, key), NilError))
                 /\ UNCHANGED <<numCPU, a, options, cmps>>

(***************************************************************************)
(* Compare.                                                                *)
(***************************************************************************)
Parsed(err, version, memoryCost, timeCost, parallelismCost, salt, key) ==
    [err |-> err, version |-> version, memoryCost |-> memoryCost, timeCost |-> timeCost,
     parallelismCost |-> parallelismCost, salt |-> salt, key |-> key]

Failed(err) == Parsed(err, 0, 0, 0, 0, <<>>, <<>>)

\* a variant that accepts longer part lists
LenPartsAtLeast(parts) == Len(parts) >= numParts

\* len(parts) != numParts, negated
LenPartsOk(parts) == Len(parts) = numParts

\* a variant that refuses every version but the one Generate writes
ScanPinnedVersion(part) ==
    LET r == Sscanf(part, versionTemplate, <<IntOperand>>)
    IN  [err |-> r.err \/ r.vals # <<Version>>, vals |-> r.vals]

ScanVersion(part) == Sscanf(part, versionTemplate, <<IntOperand>>)

ScanParams(part) == Sscanf(part, paramsTemplate, <<Uint32Operand, Uint32Operand, Uint8Operand>>)

DecodeSalt(part) == DecodeString(part)

\* a variant that decodes the key without Strict()
DecodeKeyNotStrict(part) == RawDecodeString(part)

DecodeKey(part) == DecodeString(part)

\* Compare up to the decoding of the key: the first step that fails returns
ParseHash(hash) ==
    LET parts == Split(hash, splitChar)
    IN  IF ~LenPartsOk(parts)
        THEN Failed(Errorf("argon2id: parts", ErrMalformedHash))
        ELSE IF parts[algorithmIdx + 1] # algorithm
        THEN Failed(Errorf("argon2id: algorithm", ErrMalformedHash))
        ELSE LET v == ScanVersion(parts[versionIdx + 1])
        IN  IF v.err THEN Failed(Errorf("argon2id: scan version", ErrScan))
        ELSE LET ps == ScanParams(parts[paramsIdx + 1])
        IN  IF ps.err THEN Failed(Errorf("argon2id: scan params", ErrScan))
        ELSE LET salt == DecodeSalt(parts[saltIdx + 1])
        IN  IF salt.err THEN Failed(Errorf("argon2id: decode salt", ErrCorruptInput))
        ELSE LET key == DecodeKey(parts[keyIdx + 1])
        IN  IF key.err THEN Failed(Errorf("argon2id: decode key", ErrCorruptInput))
        ELSE Parsed(NilError, v.vals[1], ps.vals[1], ps.vals[2], ps.vals[3],
                    salt.bytes, key.bytes)

\* a variant that derives a key of the receiver's keyLength
CompareQueryOwnKeyLength(cfg, password, p) ==
    Query(password, p.salt, p.timeCost, p.memoryCost, p.parallelismCost, cfg.keyLength)

\* a variant that derives the key under the receiver's cost parameters
CompareQueryOwnCosts(cfg, password, p) ==
    Query(password, p.salt, cfg.timeCost, cfg.memoryCost, cfg.parallelismCost, Len(p.key))

\* the call of argon2.IDKey in Compare
CompareQuery(cfg, password, p) ==
    Query(password, p.salt, p.timeCost, p.memoryCost, p.parallelismCost, Len(p.key))

\* the end of Compare
CompareKeys(key, comparisonKey) ==
    IF ConstantTimeCompare(key, comparisonKey) = matching
    THEN NilError
    ELSE Errorf("argon2id", ErrPasswordsDoNotMatch)

CmpCall(cfg, password, hash, compared, key, comparisonKey, err) ==
    [a |-> cfg, password |-> password, hash |-> hash, compared |-> compared,
     key |-> key, comparisonKey |-> comparisonKey, err |-> err]

Compare(password, hash) ==
    LET p == ParseHash(hash)
        q == CompareQuery(a, password, p)
    IN  IF p.err # NilError
        THEN /\ cmps' = cmps \cup {CmpCall(a, password, hash, FALSE, <<>>, <<>>, p.err)}
             /\ UNCHANGED <<numCPU, a, options, oracle, gens>>
        ELSE IF IDKeyPanics(q)
        THEN /\ cmps' = cmps \cup {CmpCall(a, password, hash, FALSE, p.key, <<>>,
                                           Errorf("argon2", Panic))}
             /\ UNCHANGED <<numCPU, a, options, oracle, gens>>
        ELSE \E comparisonKey \in IDKey(q) :
             /\ oracle' = oracle \cup {[q |-> q, key |-> comparisonKey]}
             /\ cmps' = cmps \cup {CmpCall(a, password, hash, TRUE, p.key, comparisonKey,
                                           CompareKeys(p.key, comparisonKey))}
             /\ UNCHANGED <<numCPU, a, options, gens>>

(***************************************************************************)
(* New.                                                                    *)
(***************************************************************************)
New(opts) ==
    /\ a' = NewArgon2Id(opts)
    /\ options' = opts
    /\ UNCHANGED <<numCPU, oracle, gens, cmps>>

(***************************************************************************)
(* The specifications.                                                     *)
(***************************************************************************)
\* the package is initialised (init has run) and New() has built a
Init ==
    /\ numCPU \in NumCPUs
    /\ options = <<>>
    /\ a = NewArgon2Id(<<>>)
    /\ oracle = {}
    /\ gens = <<>>
    /\ cmps = {}

Calls == Len(gens) + Cardinality(cmps)

\* the hashes Generate has returned
Generated == {gens[i].hash : i \in {j \in 1..Len(gens) : gens[j].err = NilError}}

\* instances are built, hashes generated, and generated hashes compared
Next ==
    \/ \E opts \in UsedOptionLists : New(opts)
    \/ /\ Calls < MaxCalls
       /\ \E password \in Passwords : Generate(password)
    \/ /\ Calls < MaxCalls
       /\ \E password \in Passwords, hash \in Generated : Compare(password, hash)

Spec == Init /\ [][Next]_vars

\* instances are built from every short list of options
NextNew == \E opts \in OptionLists(MaxOpts) : New(opts)

SpecNew == Init /\ [][NextNew]_vars

(***************************************************************************)
(* Compare on strings that Generate did not write.                         *)
(***************************************************************************)
SegV19 == <<"v", "=", "1", "9">>
SegV16 == <<"v", "=", "1", "6">>
SegVSigned == <<"v", "=", " ", "-", "1", "x">>
SegVLetter == <<"v", "=", "x">>
SegVUnderscore == <<"v", "=", "1", "_", "9">>
SegVOverflow == <<"v", "=", "9", "9", "9", "9", "9", "9", "9", "9", "9", "9", "9", "9", "9", "9", "9", "9", "9", "9", "9", "9">>
SegParams == <<"m", "=", "8", ",", "t", "=", "1", ",", "p", "=", "1">>
SegParamsP256 == <<"m", "=", "8", ",", "t", "=", "1", ",", "p", "=", "2", "5", "6">>
SegParamsNoRounds == <<"m", "=", "8", ",", "t", "=", "0", ",", "p", "=", "1">>
SegArgon2i == <<"a", "r", "g", "o", "n", "2", "i">>
SegBcrypt == <<"b", "c", "r", "y", "p", "t">>
SegOneChar == <<"A">>
SegTrailingBits == <<"A", "B">>
SegPadded == <<"A", "A", "=", "=">>
SegNewline == <<"A", "\n", "A">>
NotAHash == <<"n", "o", "t", "-", "a", "-", "h", "a", "s", "h">>

\* strings.Join(parts, sep)
RECURSIVE Join(_, _)
Join(parts, sep) ==
    IF parts = <<>> THEN <<>>
    ELSE IF Len(parts) = 1 THEN parts[1]
    ELSE parts[1] \o <<sep>> \o Join(Tail(parts), sep)

\* the parts of a well-formed hash of a two-byte key under a one-byte salt
BaseParts ==
    <<<<>>, algorithm, SegV19, SegParams, EncodeToString(Fill(1, 1)), EncodeToString(Fill(2, 1))>>

CraftedParts ==
    { BaseParts,
      [BaseParts EXCEPT ![3] = SegV16],
      [BaseParts EXCEPT ![3] = SegVSigned],
      [BaseParts EXCEPT ![1] = SegOneChar],
      SubSeq(BaseParts, 1, 5),
      Append(BaseParts, <<>>),
      [BaseParts EXCEPT ![2] = SegArgon2i],
      [BaseParts EXCEPT ![2] = SegBcrypt, ![3] = SegVLetter],
      [BaseParts EXCEPT ![3] = SegVUnderscore, ![4] = SegParamsP256],
      [BaseParts EXCEPT ![3] = SegVOverflow],
      [BaseParts EXCEPT ![4] = SegParamsP256, ![5] = SegOneChar],
      [BaseParts EXCEPT ![4] = SegParamsNoRounds],
      [BaseParts EXCEPT ![5] = SegOneChar, ![6] = SegTrailingBits],
      [BaseParts EXCEPT ![5] = SegPadded],
      [BaseParts EXCEPT ![6] = SegTrailingBits],
      [BaseParts EXCEPT ![6] = SegNewline],
      [BaseParts EXCEPT ![6] = <<>>] }

Crafted == {Join(parts, splitChar) : parts \in CraftedParts} \cup {NotAHash}

\* stored strings of any shape are compared
NextCompare ==
    /\ Calls < MaxCalls
    /\ \E password \in Passwords, hash \in Crafted : Compare(password, hash)

SpecCompare == Init /\ [][NextCompare]_vars

(***************************************************************************)
(* Compare by instances of other configurations on strings that Generate   *)
(* writes.                                                                 *)
(***************************************************************************)
\* the custom configuration of the README
ReadmeOptions ==
    <<WithTimeCost(4), WithMemoryCost(32768), WithParallelismCost(2),
      WithSaltLength(48), WithKeyLength(64)>>

VerifyOptionLists == UsedOptionLists \cup {ReadmeOptions}

\* what Generate returns under the configurations of UsedOptionLists
Stored ==
    {GenerateFormat(NewArgon2Id(opts), Fill(NewArgon2Id(opts).saltLength, 1),
                    Fill(NewArgon2Id(opts).keyLength, 1)) : opts \in UsedOptionLists}

NextVerify ==
    \/ \E opts \in VerifyOptionLists : New(opts)
    \/ /\ Calls < MaxCalls
       /\ \E password \in Passwords, hash \in Stored : Compare(password, hash)

SpecVerify == Init /\ [][NextVerify]_vars

(***************************************************************************)
(* Properties.                                                             *)
(***************************************************************************)
GenCalls == {gens[i] : i \in 1..Len(gens)}

\* the calls of Generate that returned a string and no error
Returned == {g \in GenCalls : g.err = NilError}

Mismatch == Errorf("argon2id", ErrPasswordsDoNotMatch)

\* C1: Compare(P, h) returns nil for every h that Generate(P) returned without
\* error, whatever the configuration.
RoundTrip ==
    \A g \in Returned, c \in cmps :
        (c.password = g.password /\ c.hash = g.hash) => c.err = NilError

RoundTripWitness ==
    \E g \in Returned, c \in cmps :
        /\ c.password = g.password /\ c.hash = g.hash /\ c.err = NilError
        /\ g.a.saltLength = defaultSaltLength

Separators(s) == {i \in 1..Len(s) : s[i] = splitChar}

Tag(s) ==
    LET first  == CHOOSE i \in Separators(s) : \A j \in Separators(s) : i <= j
        second == CHOOSE i \in Separators(s) \ {first} :
                      \A j \in Separators(s) \ {first} : i <= j
    IN  SubSeq(s, first + 1, second - 1)

\* C3: Compare returns ErrMalformedHash, as an error value, for every string
\* that does not split into six segments on '$' or whose segment 1 is not
\* "argon2id", for any password.
FormatRejection ==
    \A c \in cmps :
        (Cardinality(Separators(c.hash)) # numParts - 1 \/ Tag(c.hash) # algorithm)
            => Is(c.err, ErrMalformedHash)

FormatRejectionWitness ==
    /\ \E c \in cmps : c.hash = NotAHash /\ Is(c.err, ErrMalformedHash)
    /\ \E c \in cmps : /\ Cardinality(Separators(c.hash)) = numParts - 1
                       /\ Tag(c.hash) = SegArgon2i
                       /\ Is(c.err, ErrMalformedHash)

\* C4: the result of Compare(password, encoded) does not depend on the
\* configuration of the instance it is called on.
ParameterIndependence ==
    \A c1 \in cmps, c2 \in cmps :
        (c1.password = c2.password /\ c1.hash = c2.hash) => c1.err = c2.err

ParameterIndependenceWitness ==
    \E c1 \in cmps, c2 \in cmps :
        /\ c1.password = c2.password /\ c1.hash = c2.hash
        /\ c1.a.timeCost # c2.a.timeCost /\ c1.a.memoryCost # c2.a.memoryCost
        /\ c1.a.parallelismCost # c2.a.parallelismCost
        /\ c1.a.saltLength # c2.a.saltLength /\ c1.a.keyLength # c2.a.keyLength
        /\ c1.err = NilError /\ c2.err = NilError

\* two calls of Generate, one after the other, on the same configuration and
\* password, both returning a string
Successive(i) ==
    /\ gens[i].err = NilError /\ gens[i + 1].err = NilError
    /\ gens[i].a = gens[i + 1].a
    /\ gens[i].password = gens[i + 1].password

\* C5, as claimed: two successive Generate(P) calls return different strings.
Uniqueness ==
    \A i \in 1..(Len(gens) - 1) : Successive(i) => gens[i].hash # gens[i + 1].hash

\* C5, amended: two successive Generate(P) calls return different strings
\* exactly when the random source gave them different salts; with saltLength 0
\* the salt is empty and the two strings are equal.
UniquenessOfSalts ==
    \A i \in 1..(Len(gens) - 1) :
        Successive(i) =>
            /\ (gens[i].hash # gens[i + 1].hash) <=> (gens[i].salt # gens[i + 1].salt)
            /\ gens[i].a.saltLength = 0 => gens[i].hash = gens[i + 1].hash

UniquenessWitness ==
    \E i \in 1..(Len(gens) - 1) :
        Successive(i) /\ gens[i].hash # gens[i + 1].hash /\ gens[i].key = gens[i + 1].key

\* C6: every string Generate returns splits on '$' into six segments: empty,
\* "argon2id", "v=<version>", "m=<memoryCost>,t=<timeCost>,p=<parallelismCost>"
\* of the configuration, the unpadded base64 of the salt and of the key.
CanonicalFormat ==
    \A g \in Returned :
        LET parts == Split(g.hash, splitChar)
        IN  /\ Len(parts) = 6
            /\ parts[1] = <<>>
            /\ parts[2] = algorithm
            /\ parts[3] = <<"v", "=">> \o FormatInt(Version)
            /\ parts[4] = <<"m", "=">> \o FormatInt(g.a.memoryCost)
                          \o <<",", "t", "=">> \o FormatInt(g.a.timeCost)
                          \o <<",", "p", "=">> \o FormatInt(g.a.parallelismCost)
            /\ \A i \in 1..Len(parts[5]) : InAlphabet(parts[5][i])
            /\ \A i \in 1..Len(parts[6]) : InAlphabet(parts[6][i])
            /\ DecodeString(parts[5]) = [err |-> FALSE, bytes |-> g.salt]
            /\ DecodeString(parts[6]) = [err |-> FALSE, bytes |-> g.key]
            /\ Len(g.salt) = g.a.saltLength /\ Len(g.key) = g.a.keyLength

CanonicalFormatWitness ==
    \E g \in Returned : g.a.memoryCost # g.a.timeCost /\ g.a.saltLength = defaultSaltLength

\* the argument of the last option of opts made by fn, or else def
RECURSIVE LastArg(_, _, _)
LastArg(opts, fn, def) ==
    IF opts = <<>> THEN def
    ELSE IF opts[Len(opts)].fn = fn THEN opts[Len(opts)].arg
    ELSE LastArg(SubSeq(opts, 1, Len(opts) - 1), fn, def)

\* C7: each field of the configuration New returns is the argument of the
\* last option that sets it, or its default: 2, 65536, the number of
\* processing units, 16, 32.
ConstructLastWins ==
    /\ a.timeCost = LastArg(options, "WithTimeCost", 2)
    /\ a.memoryCost = LastArg(options, "WithMemoryCost", 65536)
    /\ a.parallelismCost = LastArg(options, "WithParallelismCost", numCPU)
    /\ a.saltLength = LastArg(options, "WithSaltLength", 16)
    /\ a.keyLength = LastArg(options, "WithKeyLength", 32)

\* the steps of Compare before the KDF, in order, and the error of each
StepFails(hash) ==
    LET parts == Split(hash, splitChar)
    IN  <<Len(parts) # 6,
          Len(parts) < 2 \/ parts[2] # algorithm,
          Len(parts) < 3 \/ Sscanf(parts[3], versionTemplate, <<IntOperand>>).err,
          Len(parts) < 4 \/ Sscanf(parts[4], paramsTemplate,
                                   <<Uint32Operand, Uint32Operand, Uint8Operand>>).err,
          Len(parts) < 5 \/ DecodeString(parts[5]).err,
          Len(parts) < 6 \/ DecodeString(parts[6]).err>>

StepError ==
    <<Errorf("argon2id: parts", ErrMalformedHash),
      Errorf("argon2id: algorithm", ErrMalformedHash),
      Errorf("argon2id: scan version", ErrScan),
      Errorf("argon2id: scan params", ErrScan),
      Errorf("argon2id: decode salt", ErrCorruptInput),
      Errorf("argon2id: decode key", ErrCorruptInput)>>

\* C8: Compare returns ErrPasswordsDoNotMatch only when every step before the
\* KDF passed and the recomputed key differs from the stored key; when a step
\* fails, the first failing step decides the error, which is neither
\* ErrPasswordsDoNotMatch nor nil.
ErrorClassification ==
    \A c \in cmps :
        LET fails == StepFails(c.hash)
        IN  /\ Is(c.err, ErrPasswordsDoNotMatch) =>
                   /\ \A k \in 1..6 : ~fails[k]
                   /\ c.compared /\ c.key # c.comparisonKey
            /\ \A k \in 1..6 :
                   (fails[k] /\ \A j \in 1..(k - 1) : ~fails[j]) =>
                       /\ c.err = StepError[k]
                       /\ ~Is(c.err, ErrPasswordsDoNotMatch) /\ c.err # NilError

ErrorClassificationWitness ==
    /\ \E c \in cmps : StepFails(c.hash)[5] /\ StepFails(c.hash)[6]
                       /\ c.err = StepError[5]
    /\ \E c \in cmps : Is(c.err, ErrPasswordsDoNotMatch)

\* C9: the KDF is asked for as many bytes as the decoded key has, so the two
\* keys compared have equal length, and Compare returns nil exactly when they
\* are equal.
EqualLengthOperands ==
    \A c \in cmps :
        /\ c.compared =>
               /\ \E e \in oracle : /\ e.key = c.comparisonKey
                                    /\ e.q.password = c.password
                                    /\ e.q.keyLen = Len(c.key)
               /\ Len(c.comparisonKey) = Len(c.key)
        /\ c.err = NilError <=> (c.compared /\ c.comparisonKey = c.key)

EqualLengthOperandsWitness ==
    \E c1 \in cmps, c2 \in cmps :
        /\ c1.compared /\ Len(c1.key) # c1.a.keyLength /\ c1.err = NilError
        /\ c2.compared /\ Len(c2.key) # c2.a.keyLength /\ c2.err # NilError

\* two strings of six segments that are equal but for the integer of a
\* version segment that Sscanf accepts in both
DifferInVersion(h1, h2) ==
    LET p1 == Split(h1, splitChar)
        p2 == Split(h2, splitChar)
    IN  /\ Len(p1) = 6 /\ Len(p2) = 6
        /\ \A i \in {1, 2, 4, 5, 6} : p1[i] = p2[i]
        /\ ~Sscanf(p1[3], versionTemplate, <<IntOperand>>).err
        /\ ~Sscanf(p2[3], versionTemplate, <<IntOperand>>).err
        /\ Sscanf(p1[3], versionTemplate, <<IntOperand>>).vals
               # Sscanf(p2[3], versionTemplate, <<IntOperand>>).vals

\* C10: Compare returns the same result for two strings that differ only in
\* the integer of their version segment, for every password.
VersionIgnored ==
    \A c1 \in cmps, c2 \in cmps :
        (c1.password = c2.password /\ DifferInVersion(c1.hash, c2.hash)) => c1.err = c2.err

VersionIgnoredWitness ==
    \E c1 \in cmps, c2 \in cmps :
        /\ c1.password = c2.password /\ DifferInVersion(c1.hash, c2.hash)
        /\ Split(c1.hash, splitChar)[3] = <<"v", "=">> \o FormatInt(Version)
        /\ c1.err = NilError /\ c2.err = NilError

=============================================================================
